---- MODULE Spec2Model ----
(***************************************************************************)
(* The four resolvers and the metadata classifier of src/solvers.ts as one *)
(* state machine.  A call suspends at each network fetch; the remote side  *)
(* answers, the transport rejects, or the request's deadline (when the     *)
(* code sets one) expires.  Everything between two fetches is one step.    *)
(*                                                                         *)
(* A JavaScript string is a tuple of one-character strings, so includes,   *)
(* trim, toUpperCase, substring and the regular expressions are computed   *)
(* character by character.  `undefined' is the tuple Undefined.  A parsed  *)
(* document is the view cheerio's queries give of it: its anchors in       *)
(* document order, the paragraphs of the content container and the raw     *)
(* text the regular expressions run over.                                  *)
(***************************************************************************)
EXTENDS Integers, Sequences, FiniteSets

VARIABLES proc, pc, url, requests, deadline, resp, targetUrl, finalResp, raised, result

vars == <<proc, pc, url, requests, deadline, resp, targetUrl, finalResp, raised, result>>

(***************************************************************************)
(* Bounds of the model.                                                    *)
(***************************************************************************)
MaxAnchors == 2
MaxLangs == 3
MaxFormats == 2

(***************************************************************************)
(* JavaScript strings.                                                     *)
(***************************************************************************)
Undefined == <<"undefined">>

Empty == <<>>

Truthy(v) == v # Undefined /\ v # Empty

OrElse(v, d) == IF Truthy(v) THEN v ELSE d

Min(a, b) == IF a < b THEN a ELSE b

Includes(s, t) == \E i \in 0..(Len(s) - Len(t)) : SubSeq(s, i + 1, i + Len(t)) = t

StartsWith(s, t) == Len(s) >= Len(t) /\ SubSeq(s, 1, Len(t)) = t

Substring(s, from, to) == SubSeq(s, from + 1, Min(to, Len(s)))

Whitespace == {" ", "\n", "\t"}

RECURSIVE TrimStart(_)
TrimStart(s) == IF s # Empty /\ Head(s) \in Whitespace THEN TrimStart(Tail(s)) ELSE s

RECURSIVE TrimEnd(_)
TrimEnd(s) ==
  IF s # Empty /\ s[Len(s)] \in Whitespace THEN TrimEnd(SubSeq(s, 1, Len(s) - 1)) ELSE s

Trim(s) == TrimEnd(TrimStart(s))

LowerCase == <<"a","b","c","d","e","f","g","h","i","j","k","l","m","n","o","p","q","r","s","t","u","v","w","x","y","z">>

UpperCase == <<"A","B","C","D","E","F","G","H","I","J","K","L","M","N","O","P","Q","R","S","T","U","V","W","X","Y","Z">>

Digit == <<"0","1","2","3","4","5","6","7","8","9">>

UpperMap == [c \in {LowerCase[k] : k \in 1..Len(LowerCase)} |->
               UpperCase[CHOOSE k \in 1..Len(LowerCase) : LowerCase[k] = c]]

UpperOf(c) == IF c \in DOMAIN UpperMap THEN UpperMap[c] ELSE c

ToUpperCase(s) == [i \in 1..Len(s) |-> UpperOf(s[i])]

RECURSIVE Join(_, _)
Join(parts, sep) ==
  IF parts = <<>> THEN Empty
  ELSE IF Len(parts) = 1 THEN parts[1]
  ELSE parts[1] \o sep \o Join(Tail(parts), sep)

RECURSIVE ToString(_)
ToString(n) == IF n < 10 THEN <<Digit[n + 1]>> ELSE ToString(n \div 10) \o <<Digit[(n % 10) + 1]>>

Range(s) == {s[i] : i \in 1..Len(s)}

\* The tuples over S of length 0..n.
SeqsUpTo(S, n) == UNION {[1..k -> S] : k \in 0..n}

(***************************************************************************)
(* Documents as cheerio's queries see them.                                *)
(***************************************************************************)
\* An anchor: its href attribute (Undefined when absent), visible text, id,
\* classes, the container it lies in ("content" for .entry-content, "main",
\* "none"), the text of closest('p, div, h3, h4'), of that element's
\* prev('h3, h4, h5, strong') and of its prevAll('h3, p'), nearest first.
Anchor(href, text, id, class, scope, parentText, prevHead, prevAll) ==
  [href |-> href, text |-> text, id |-> id, class |-> class, scope |-> scope,
   parentText |-> parentText, prevHead |-> prevHead, prevAll |-> prevAll]

Link(href) == Anchor(href, Empty, Empty, {}, "none", Empty, Empty, <<>>)

\* A response: HTTP status, whether .entry-content exists, its paragraphs
\* (each the text of its strong children and its full text), the anchors and
\* the raw body outside the anchors.
Page(status, content, paras, anchors, text) ==
  [status |-> status, content |-> content, paras |-> paras, anchors |-> anchors,
   text |-> text]

NoPage == Page(0, FALSE, <<>>, <<>>, Empty)

HrefContains(a, marker) == a.href # Undefined /\ Includes(a.href, marker)

\* $(selector).attr('href') over the matched elements: the first one's.
AttrOfFirst(matched) == IF matched = <<>> THEN Undefined ELSE matched[1].href

(***************************************************************************)
(* Results.                                                                *)
(***************************************************************************)
NoMetadata == [quality |-> Empty, languages |-> Empty, audioLabel |-> Empty]

\* Every field a procedure's result may carry; an absent field is Undefined.
NoResult ==
  [status |-> "none", link |-> Undefined, final_link |-> Undefined, source |-> Undefined,
   message |-> Undefined, total |-> 0, links |-> <<>>, metadata |-> NoMetadata]

Message(status, message) == [NoResult EXCEPT !.status = status, !.message = message]

LinkFrom(link, source) ==
  [NoResult EXCEPT !.status = "success", !.link = link, !.source = source]

\* catch (e) { return { status: "error", message: e.message } }
Caught(message) == Message("error", message)

(***************************************************************************)
(* solveHBLinks                                                            *)
(***************************************************************************)
AxiosTimeout == 15000

HubCloudMarker == <<"h","u","b","c","l","o","u","d",".","f","o","o">>

HubDriveMarker == <<"h","u","b","d","r","i","v","e",".","s","p","a","c","e">>

IsHubCloud(a) == HrefContains(a, HubCloudMarker)

IsHubDrive(a) == HrefContains(a, HubDriveMarker)

HBLinksSecondFirst(response) ==
  LET hubcloudLink == AttrOfFirst(SelectSeq(response.anchors, IsHubCloud))
      hubdriveLink == AttrOfFirst(SelectSeq(response.anchors, IsHubDrive))
  IN IF response.status # 200
     THEN Message("fail", <<"C","a","n","n","o","t"," ","o","p","e","n"," ","p","a","g","e","."," ","S","t","a","t","u","s",":"," ">> \o ToString(response.status))
     ELSE IF Truthy(hubdriveLink)
     THEN LinkFrom(hubdriveLink, <<"H","u","b","D","r","i","v","e"," ","(","P","r","i","o","r","i","t","y"," ","2",")">>)
     ELSE IF Truthy(hubcloudLink)
     THEN LinkFrom(hubcloudLink, <<"H","u","b","C","l","o","u","d"," ","(","P","r","i","o","r","i","t","y"," ","1",")">>)
     ELSE Message("fail", <<"N","o","t"," ","F","o","u","n","d">>)

\* The body of solveHBLinks after the awaited response.
HBLinksBody(response) ==
  LET hubcloudLink == AttrOfFirst(SelectSeq(response.anchors, IsHubCloud))
      hubdriveLink == AttrOfFirst(SelectSeq(response.anchors, IsHubDrive))
  IN IF response.status # 200
     THEN Message("fail", <<"C","a","n","n","o","t"," ","o","p","e","n"," ","p","a","g","e","."," ","S","t","a","t","u","s",":"," ">> \o ToString(response.status))
     ELSE IF Truthy(hubcloudLink)
     THEN LinkFrom(hubcloudLink, <<"H","u","b","C","l","o","u","d"," ","(","P","r","i","o","r","i","t","y"," ","1",")">>)
     ELSE IF Truthy(hubdriveLink)
     THEN LinkFrom(hubdriveLink, <<"H","u","b","D","r","i","v","e"," ","(","P","r","i","o","r","i","t","y"," ","2",")">>)
     ELSE Message("fail", <<"N","o","t"," ","F","o","u","n","d">>)

\* Inputs: the destinations an hblinks page may carry.
HBHrefs ==
  {<<"h","t","t","p","s",":","/","/","h","u","b","c","l","o","u","d",".","f","o","o","/","d","r","i","v","e","/","a","1">>, <<"h","t","t","p","s",":","/","/","h","u","b","c","l","o","u","d",".","f","o","o","/","d","r","i","v","e","/","b","2">>,
   <<"h","t","t","p","s",":","/","/","h","u","b","d","r","i","v","e",".","s","p","a","c","e","/","f","i","l","e","/","7","7">>, <<"h","t","t","p","s",":","/","/","e","x","a","m","p","l","e",".","o","r","g","/","a","b","o","u","t">>, Undefined}

HBPages ==
  {Page(s, FALSE, <<>>, [i \in 1..Len(hs) |-> Link(hs[i])], Empty) :
     s \in {200, 204}, hs \in SeqsUpTo(HBHrefs, MaxAnchors)}

\* Inputs: the URLs a caller passes, one of them a direct-download path.
Urls == {<<"h","t","t","p","s",":","/","/","s","i","t","e",".","e","x","a","m","p","l","e","/","f","i","l","e","/","9">>, <<"h","t","t","p","s",":","/","/","s","i","t","e",".","e","x","a","m","p","l","e","/","d","l","/","9">>}

(***************************************************************************)
(* extractMovieMetadata                                                    *)
(***************************************************************************)
TargetDomains ==
  <<<<"h","b","l","i","n","k","s">>, <<"h","u","b","d","r","i","v","e">>, <<"h","u","b","c","d","n">>, <<"h","u","b","c","l","o","u","d">>, <<"g","d","f","l","i","x">>, <<"d","r","i","v","e","h","u","b">>>>

IsTargetDomain(href) == \E i \in 1..Len(TargetDomains) : Includes(href, TargetDomains[i])

validLanguagesEnglishFirst ==
  <<<<"E","n","g","l","i","s","h">>, <<"H","i","n","d","i">>, <<"T","a","m","i","l">>, <<"T","e","l","u","g","u">>, <<"M","a","l","a","y","a","l","a","m">>, <<"K","a","n","n","a","d","a">>, <<"P","u","n","j","a","b","i">>,
    <<"M","a","r","a","t","h","i">>, <<"B","e","n","g","a","l","i">>>>

validLanguages ==
  <<<<"H","i","n","d","i">>, <<"E","n","g","l","i","s","h">>, <<"T","a","m","i","l">>, <<"T","e","l","u","g","u">>, <<"M","a","l","a","y","a","l","a","m">>, <<"K","a","n","n","a","d","a">>, <<"P","u","n","j","a","b","i">>,
    <<"M","a","r","a","t","h","i">>, <<"B","e","n","g","a","l","i">>>>

resolutions ==
  <<[label |-> <<"4","K">>, value |-> 5000], [label |-> <<"2","1","6","0","p">>, value |-> 4000],
    [label |-> <<"1","0","8","0","p">>, value |-> 3000], [label |-> <<"7","2","0","p">>, value |-> 2000],
    [label |-> <<"4","8","0","p">>, value |-> 1000]>>

formats ==
  <<<<"W","E","B","-","D","L">>, <<"H","D","R","i","p">>, <<"B","l","u","r","a","y">>, <<"H","E","V","C">>, <<"1","0","B","i","t">>, <<"U","N","C","U","T">>, <<"W","E","B","-","R","I","P">>, <<"D","V","D","R","I","P">>>>

\* \w of a regular expression.
WordChars == Range(LowerCase) \cup Range(UpperCase) \cup Range(Digit) \cup {"_"}

\* new RegExp(`\\b${word}\\b`, 'i').test(text), word made of word characters.
WordTest(text, word) ==
  LET T == ToUpperCase(text)
      W == ToUpperCase(word)
  IN \E i \in 0..(Len(T) - Len(W)) :
       /\ SubSeq(T, i + 1, i + Len(W)) = W
       /\ (i = 0 \/ T[i] \notin WordChars)
       /\ (i + Len(W) = Len(T) \/ T[i + Len(W) + 1] \notin WordChars)

\* $content.find('p').filter(strong text includes marker).text()
SourceA(html, marker) ==
  LET hits == SelectSeq(html.paras, LAMBDA p : Includes(p.strong, marker))
  IN Join([i \in 1..Len(hits) |-> hits[i].text], Empty)

\* The texts pushed for one download anchor: its block ancestor's, then those
\* of the two nearest preceding h3/p siblings.
AnchorTexts(a) == <<a.parentText>> \o SubSeq(a.prevAll, 1, Min(2, Len(a.prevAll)))

RECURSIVE SourceB(_)
SourceB(anchors) ==
  IF anchors = <<>> THEN <<>>
  ELSE LET a == Head(anchors)
       IN (IF a.scope = "content" /\ a.href # Undefined /\ IsTargetDomain(a.href)
           THEN AnchorTexts(a) ELSE <<>>) \o SourceB(Tail(anchors))

CombinedText(html, marker) ==
  ToUpperCase(SourceA(html, marker) \o <<" ">> \o Join(SourceB(html.anchors), <<" ">>))

\* validLanguages.forEach: the Set keeps insertion order.
MatchedLanguages(text) ==
  SelectSeq(validLanguages, LAMBDA lang : WordTest(text, ToUpperCase(lang)))

AudioLabelDualFromOne(languagesArray) ==
  IF Len(languagesArray) = 0 THEN <<"U","n","k","n","o","w","n">>
  ELSE IF Len(languagesArray) >= 3 THEN <<"M","u","l","t","i"," ","A","u","d","i","o">>
  ELSE <<"D","u","a","l"," ","A","u","d","i","o">>

AudioLabel(languagesArray) ==
  IF Len(languagesArray) = 1 THEN languagesArray[1]
  ELSE IF Len(languagesArray) = 2 THEN <<"D","u","a","l"," ","A","u","d","i","o">>
  ELSE IF Len(languagesArray) >= 3 THEN <<"M","u","l","t","i"," ","A","u","d","i","o">>
  ELSE <<"U","n","k","n","o","w","n">>

\* resolutions.forEach from entry i on, with the maximum so far.
RECURSIVE HighestRes(_, _, _, _)
HighestRes(text, i, maxResValue, highestResLabel) ==
  IF i > Len(resolutions) THEN highestResLabel
  ELSE LET res == resolutions[i]
       IN IF Includes(text, ToUpperCase(res.label)) /\ res.value > maxResValue
          THEN HighestRes(text, i + 1, res.value, res.label)
          ELSE HighestRes(text, i + 1, maxResValue, highestResLabel)

\* [...new Set(xs)]: first occurrences, in order.
RECURSIVE Unique(_)
Unique(xs) ==
  IF xs = <<>> THEN <<>>
  ELSE LET front == Unique(SubSeq(xs, 1, Len(xs) - 1))
           last == xs[Len(xs)]
       IN IF last \in Range(front) THEN front ELSE Append(front, last)

FinalQualityKeepsFormats(text) ==
  LET highestResLabel == HighestRes(text, 1, 0, Empty)
      foundFormats == SelectSeq(formats, LAMBDA f : Includes(text, ToUpperCase(f)))
  IN IF highestResLabel # Empty \/ foundFormats # <<>>
     THEN Trim(OrElse(highestResLabel, <<"U","n","k","n","o","w","n"," ","Q","u","a","l","i","t","y">>) \o <<" ">>
                 \o Join(Unique(foundFormats), <<" ">>))
     ELSE <<"U","n","k","n","o","w","n"," ","Q","u","a","l","i","t","y">>

FinalQuality(text) ==
  LET highestResLabel == HighestRes(text, 1, 0, Empty)
      foundFormats == SelectSeq(formats, LAMBDA f : Includes(text, ToUpperCase(f)))
  IN IF highestResLabel # Empty
     THEN Trim(highestResLabel \o <<" ">> \o Join(Unique(foundFormats), <<" ">>))
     ELSE <<"U","n","k","n","o","w","n"," ","Q","u","a","l","i","t","y">>

extractMovieMetadata(html) ==
  IF ~html.content
  THEN [quality |-> <<"U","n","k","n","o","w","n">>, languages |-> <<"N","o","t"," ","S","p","e","c","i","f","i","e","d">>, audioLabel |-> <<"U","n","k","n","o","w","n">>]
  ELSE LET languagesArray == MatchedLanguages(CombinedText(html, <<"L","a","n","g","u","a","g","e",":">>))
       IN [quality |-> FinalQuality(CombinedText(html, <<"Q","u","a","l","i","t","y",":">>)),
           languages |-> OrElse(Join(languagesArray, <<","," ">>), <<"N","o","t"," ","S","p","e","c","i","f","i","e","d">>),
           audioLabel |-> AudioLabel(languagesArray)]

\* Inputs: pages carrying language and quality evidence.
Reverse(s) == [i \in 1..Len(s) |-> s[Len(s) + 1 - i]]

SubsetsUpTo(S, n) == {T \in SUBSET S : Cardinality(T) <= n}

Listed(vocabulary, T) == SelectSeq(vocabulary, LAMBDA x : x \in T)

Paragraph(label, text) == [strong |-> label, text |-> label \o <<" ">> \o text]

DownloadBlock(blockText, before) ==
  Anchor(<<"h","t","t","p","s",":","/","/","h","u","b","c","l","o","u","d",".","f","o","o","/","d","r","i","v","e","/","a","1">>, <<"D","o","w","n","l","o","a","d">>, Empty, {}, "content", blockText,
         Empty, before)

EvidenceWords ==
  <<<<"B","e","n","g","a","l","i">>, <<"M","a","r","a","t","h","i">>, <<"P","u","n","j","a","b","i">>, <<"K","a","n","n","a","d","a">>, <<"M","a","l","a","y","a","l","a","m">>, <<"T","e","l","u","g","u">>, <<"T","a","m","i","l">>,
    <<"E","n","g","l","i","s","h">>, <<"H","i","n","d","i">>, <<"T","a","m","i","l","r","o","c","k","e","r","s">>, <<"h","i","n","d","i","-","d","u","b","b","e","d">>>>

TierWords == <<<<"4","8","0","p">>, <<"7","2","0","p">>, <<"1","0","8","0","P">>, <<"2","1","6","0","p">>, <<"4","k">>>>

FormatWords ==
  <<<<"D","V","D","R","i","p">>, <<"W","E","B","-","R","i","p">>, <<"U","n","c","u","t">>, <<"1","0","b","i","t">>, <<"H","E","V","C">>, <<"B","l","u","R","a","y">>, <<"H","D","R","i","p">>, <<"W","E","B","-","D","L">>>>

LangDocs ==
  {Page(200, TRUE,
        (IF src = "A" THEN <<Paragraph(<<"L","a","n","g","u","a","g","e",":">>, Join(names, <<","," ">>))>> ELSE <<>>)
          \o (IF q = Empty THEN <<>> ELSE <<Paragraph(<<"Q","u","a","l","i","t","y",":">>, q)>>),
        IF src = "B" THEN <<DownloadBlock(<<"L","i","n","k","s">>, <<Join(names, <<" ","+"," ">>), <<"x">>, <<"T","a","m","i","l">>>>)>>
        ELSE <<>>,
        Empty) :
     names \in UNION {{Listed(EvidenceWords, T), Reverse(Listed(EvidenceWords, T))} :
                        T \in SubsetsUpTo(Range(EvidenceWords), MaxLangs)},
     src \in {"A", "B"},
     q \in {Empty, <<"1","0","8","0","p"," ","H","E","V","C">>}}

QualDocs ==
  {Page(200, TRUE,
        (IF src = "A" THEN <<Paragraph(<<"Q","u","a","l","i","t","y",":">>, Join(words, <<" ">>))>> ELSE <<>>)
          \o (IF l = Empty THEN <<>> ELSE <<Paragraph(<<"L","a","n","g","u","a","g","e",":">>, l)>>),
        IF src = "B" THEN <<DownloadBlock(Join(words, <<" ","|"," ">>), <<>>)>> ELSE <<>>,
        Empty) :
     words \in {Listed(TierWords, T) \o Listed(FormatWords, F) :
                  T \in SUBSET Range(TierWords),
                  F \in SubsetsUpTo(Range(FormatWords), MaxFormats)},
     src \in {"A", "B"},
     l \in {Empty, <<"H","i","n","d","i",","," ","E","n","g","l","i","s","h">>}}

\* Pages with no .entry-content: the evidence lies in main.
BareDocs ==
  {Page(200, FALSE, <<>>,
        <<Anchor(<<"h","t","t","p","s",":","/","/","h","u","b","c","l","o","u","d",".","f","o","o","/","d","r","i","v","e","/","a","1">>, <<"D","o","w","n","l","o","a","d">>, Empty, {}, "main", t,
                 Empty, <<>>)>>,
        Empty) :
     t \in {<<"H","i","n","d","i"," ","1","0","8","0","p"," ","H","E","V","C">>, <<"L","i","n","k","s">>}}

MetadataDocs == LangDocs \cup QualDocs \cup BareDocs

(***************************************************************************)
(* extractMovieLinks                                                       *)
(***************************************************************************)
JUNK_DOMAINS ==
  <<<<"c","a","t","i","m","a","g","e","s">>, <<"i","m","d","b",".","c","o","m">>, <<"g","o","o","g","l","e","u","s","e","r","c","o","n","t","e","n","t">>, <<"i","n","s","t","a","g","r","a","m",".","c","o","m">>, <<"f","a","c","e","b","o","o","k",".","c","o","m">>,
    <<"w","p","-","c","o","n","t","e","n","t">>, <<"w","p","s","h","o","p","m","a","r","t">>>>

DownloadKeywords ==
  <<<<"D","O","W","N","L","O","A","D">>, <<"7","2","0","P">>, <<"4","8","0","P">>, <<"1","0","8","0","P">>, <<"4","K">>, <<"D","I","R","E","C","T">>, <<"G","D","R","I","V","E">>>>

NameLimit == 50

IsJunk(link) == \E i \in 1..Len(JUNK_DOMAINS) : Includes(link, JUNK_DOMAINS[i])

IsDownloadText(text) ==
  LET T == ToUpperCase(text)
  IN \E i \in 1..Len(DownloadKeywords) : Includes(T, DownloadKeywords[i])

\* text.replace(/⚡/g, "")
StripGlyph(text) == SelectSeq(text, LAMBDA c : c # "⚡")

CleanName(a) ==
  LET cleanName == Trim(StripGlyph(Trim(a.text)))
  IN IF cleanName = Empty \/ Len(cleanName) < 2
     THEN OrElse(Trim(a.prevHead), OrElse(Trim(a.parentText), <<"D","o","w","n","l","o","a","d"," ","L","i","n","k">>))
     ELSE cleanName

HasLinkNever(foundLinks, link) == FALSE

HasLink(foundLinks, link) == \E i \in 1..Len(foundLinks) : foundLinks[i].link = link

\* One pass of the each() callback over anchor a.
Visit(foundLinks, a) ==
  LET link == OrElse(a.href, Empty)
  IN IF link = Empty \/ StartsWith(link, <<"#">>) \/ IsJunk(link) THEN foundLinks
     ELSE IF ~(IsTargetDomain(link) \/ IsDownloadText(Trim(a.text))) THEN foundLinks
     ELSE IF HasLink(foundLinks, link) THEN foundLinks
     ELSE Append(foundLinks, [name |-> Substring(CleanName(a), 0, NameLimit), link |-> link])

\* $('.entry-content a[href], main a[href]'), in document order.
InArticle(a) == a.href # Undefined /\ a.scope \in {"content", "main"}

RECURSIVE FoundLinks(_)
FoundLinks(anchors) ==
  IF anchors = <<>> THEN <<>>
  ELSE LET before == FoundLinks(SubSeq(anchors, 1, Len(anchors) - 1))
           a == anchors[Len(anchors)]
       IN IF InArticle(a) THEN Visit(before, a) ELSE before

\* The body of extractMovieLinks after the awaited response text.
MovieLinksBody(html) ==
  LET foundLinks == FoundLinks(html.anchors)
  IN IF Len(foundLinks) = 0
     THEN Message("error", <<"N","o"," ","l","i","n","k","s"," ","f","o","u","n","d","."," ","T","h","e"," ","p","a","g","e"," ","s","t","r","u","c","t","u","r","e"," ","m","i","g","h","t"," ","h","a","v","e"," ","c","h","a","n","g","e","d",".">>)
     ELSE [NoResult EXCEPT !.status = "success", !.total = Len(foundLinks),
                           !.links = foundLinks, !.metadata = extractMovieMetadata(html)]

\* Inputs: the anchors a content page may carry.
LongTitle == <<"D","o","w","n","l","o","a","d"," ","M","o","v","i","e"," ","N","a","m","e"," ","2","0","2","4"," ","H","i","n","d","i"," ","D","u","b","b","e","d"," ","1","0","8","0","p"," ","W","E","B","-","D","L"," ","H","E","V","C"," ","x","2","6","5"," ","E","S","u","b","s">>

MovieAnchors ==
  {Anchor(<<"h","t","t","p","s",":","/","/","h","b","l","i","n","k","s",".","d","a","d","/","a","r","c","h","i","v","e","s","/","1">>, <<" ","D","o","w","n","l","o","a","d"," ","7","2","0","p"," ">>, Empty, {}, "content",
          <<"D","o","w","n","l","o","a","d"," ","7","2","0","p">>, Empty, <<<<"M","o","v","i","e"," ","7","2","0","p"," ","H","E","V","C">>>>),
   Anchor(<<"h","t","t","p","s",":","/","/","h","b","l","i","n","k","s",".","d","a","d","/","a","r","c","h","i","v","e","s","/","1">>, <<"⚡">>, Empty, {}, "main",
          <<"⚡">>, <<" ">> \o LongTitle \o <<" ">>, <<>>),
   Anchor(<<"h","t","t","p","s",":","/","/","h","u","b","c","d","n",".","f","a","n","s","/","f","i","l","e","/","9">>, <<"⚡">>, Empty, {}, "content",
          LongTitle, Empty, <<<<"E","n","g","l","i","s","h">>>>),
   Anchor(<<"h","t","t","p","s",":","/","/","g","d","f","l","i","x",".","d","e","v","/","f","i","l","e","/","3">>, Empty, Empty, {}, "content",
          Empty, Empty, <<>>),
   Anchor(<<"h","t","t","p","s",":","/","/","e","x","a","m","p","l","e",".","o","r","g","/","w","a","t","c","h">>, <<"⚡"," ">> \o LongTitle, Empty, {}, "main",
          LongTitle, Empty, <<>>),
   Anchor(<<"h","t","t","p","s",":","/","/","i","m","d","b",".","c","o","m","/","t","i","t","l","e","/","h","u","b","c","l","o","u","d">>, <<"D","o","w","n","l","o","a","d">>, Empty, {}, "content",
          <<"D","o","w","n","l","o","a","d">>, Empty, <<>>),
   Anchor(<<"#","r","e","s","p","o","n","d">>, <<"D","i","r","e","c","t">>, Empty, {}, "content", <<"D","i","r","e","c","t">>, Empty, <<>>),
   Anchor(Empty, <<"G","D","r","i","v","e">>, Empty, {}, "content", <<"G","D","r","i","v","e">>, Empty, <<>>),
   Anchor(<<"h","t","t","p","s",":","/","/","e","x","a","m","p","l","e",".","o","r","g","/","a","b","o","u","t">>, <<"A","b","o","u","t"," ","u","s">>, Empty, {}, "main",
          <<"A","b","o","u","t"," ","u","s">>, Empty, <<>>),
   Anchor(<<"h","t","t","p","s",":","/","/","h","u","b","d","r","i","v","e",".","s","p","a","c","e","/","f","i","l","e","/","7","7">>, <<"D","o","w","n","l","o","a","d">>, Empty, {}, "none",
          <<"D","o","w","n","l","o","a","d">>, Empty, <<>>)}

MoviePages ==
  {Page(200, TRUE, <<Paragraph(<<"L","a","n","g","u","a","g","e",":">>, <<"H","i","n","d","i">>)>>, as, Empty) :
     as \in SeqsUpTo(MovieAnchors, MaxAnchors)}

(***************************************************************************)
(* solveHubCDN                                                             *)
(***************************************************************************)
FinalTimeout == 20000

Quote == "\""

\* The lazy group "(.*?)" followed by a quote, from index j on: the text up
\* to the next quote, Undefined when a line feed or the end comes first.
QuotedFrom(text, j) ==
  IF \E k \in j..Len(text) :
       text[k] = Quote /\ \A m \in j..(k - 1) : text[m] \notin {Quote, "\n"}
  THEN LET k == CHOOSE k \in j..Len(text) :
                  text[k] = Quote /\ \A m \in j..(k - 1) : text[m] \notin {Quote, "\n"}
       IN SubSeq(text, j, k - 1)
  ELSE Undefined

\* The first index from j on that holds no whitespace: \s*.
RECURSIVE SkipSpaces(_, _)
SkipSpaces(text, j) ==
  IF j <= Len(text) /\ text[j] \in Whitespace THEN SkipSpaces(text, j + 1) ELSE j

\* The group of prefix\s*=\s*"(.*?)" matched at index i, Undefined when the
\* expression does not match there.
AssignedAt(text, i, prefix) ==
  IF ~StartsWith(SubSeq(text, i, Len(text)), prefix) THEN Undefined
  ELSE LET eq == SkipSpaces(text, i + Len(prefix))
       IN IF eq > Len(text) \/ text[eq] # "=" THEN Undefined
          ELSE LET q == SkipSpaces(text, eq + 1)
               IN IF q > Len(text) \/ text[q] # Quote THEN Undefined
                  ELSE QuotedFrom(text, q + 1)

\* text.match(re)[1] at the leftmost match, Undefined for a null match;
\* groups[i] is the group of the match that starts at index i.
FirstGroup(groups) ==
  LET hits == SelectSeq(groups, LAMBDA g : g # Undefined)
  IN IF hits = <<>> THEN Undefined ELSE hits[1]

\* html.match(/var reurl = "(.*?)"/)
ReurlMatch(html) ==
  LET prefix == <<"v","a","r"," ","r","e","u","r","l"," ","="," ","\"">>
  IN FirstGroup([i \in 1..Len(html) |->
                   IF StartsWith(SubSeq(html, i, Len(html)), prefix)
                   THEN QuotedFrom(html, i + Len(prefix)) ELSE Undefined])

\* data.match(/window\.location\.href\s*=\s*"(.*?)"/)
ScriptMatch(data) ==
  FirstGroup([i \in 1..Len(data) |-> AssignedAt(data, i, <<"w","i","n","d","o","w",".","l","o","c","a","t","i","o","n",".","h","r","e","f">>)])

\* new URL(s) throws unless s is absolute; of the strings a page carries here
\* the absolute ones are those with an http or https scheme and a host.
Schemes == {<<"h","t","t","p",":","/","/">>, <<"h","t","t","p","s",":","/","/">>}

IsURL(s) == \E scheme \in Schemes : StartsWith(s, scheme) /\ Len(s) > Len(scheme)

IndexOf(s, c) ==
  IF c \in Range(s) THEN CHOOSE i \in 1..Len(s) : s[i] = c /\ \A j \in 1..(i - 1) : s[j] # c
  ELSE 0

Before(s, c) == IF IndexOf(s, c) = 0 THEN s ELSE SubSeq(s, 1, IndexOf(s, c) - 1)

After(s, c) == IF IndexOf(s, c) = 0 THEN Empty ELSE SubSeq(s, IndexOf(s, c) + 1, Len(s))

RECURSIVE Split(_, _)
Split(s, c) == IF IndexOf(s, c) = 0 THEN <<s>> ELSE <<Before(s, c)>> \o Split(After(s, c), c)

\* The query of a URL: between the first "?" and the fragment.
Query(s) == After(Before(s, "#"), "?")

\* application/x-www-form-urlencoded: "+" is a space.  The strings here
\* carry no percent escapes.
FormDecode(s) == [i \in 1..Len(s) |-> IF s[i] = "+" THEN " " ELSE s[i]]

\* new URL(s).searchParams.get(name): the first pair named so, else null.
SearchParam(s, name) ==
  LET pairs == SelectSeq(Split(Query(s), "&"), LAMBDA p : p # Empty)
      named == SelectSeq(pairs, LAMBDA p : FormDecode(Before(p, "=")) = name)
  IN IF named = <<>> THEN Undefined ELSE FormDecode(After(named[1], "="))

Base64Alphabet == <<"A","B","C","D","E","F","G","H","I","J","K","L","M","N","O","P","Q","R","S","T","U","V","W","X","Y","Z","a","b","c","d","e","f","g","h","i","j","k","l","m","n","o","p","q","r","s","t","u","v","w","x","y","z","0","1","2","3","4","5","6","7","8","9","+","/">>

\* The characters of codes 32..126 (a "?" stands at code 96, the grave accent).
Ascii ==
  <<" ","!","\"","#","$","%","&","'","(",")","*","+",",","-",".","/","0","1","2","3","4","5","6","7","8","9",":",";","<","=",">","?","@","A","B","C","D","E","F","G","H","I","J","K","L","M","N","O","P","Q","R","S","T","U","V","W","X","Y","Z","[","\\","]","^","_","?","a","b","c","d","e","f","g","h","i","j","k","l","m","n","o","p","q","r","s","t","u","v","w","x","y","z","{","|","}","~">>

Sextet == [c \in Range(Base64Alphabet) |-> IndexOf(Base64Alphabet, c) - 1]

RECURSIVE Octets(_)
Octets(v) ==
  IF Len(v) < 2 THEN <<>>
  ELSE IF Len(v) = 2 THEN <<(v[1] * 4) + (v[2] \div 16)>>
  ELSE IF Len(v) = 3 THEN <<(v[1] * 4) + (v[2] \div 16), ((v[2] % 16) * 16) + (v[3] \div 4)>>
  ELSE <<(v[1] * 4) + (v[2] \div 16), ((v[2] % 16) * 16) + (v[3] \div 4), ((v[3] % 4) * 64) + v[4]>>
         \o Octets(SubSeq(v, 5, Len(v)))

\* Buffer.from(s, 'base64').toString('utf-8'): the decoder stops at the
\* first "=" and skips what is outside the alphabet.  The payloads here
\* decode to characters of codes 32..126.
Base64Decode(s) ==
  LET data == SelectSeq(Before(s, "="), LAMBDA c : c \in Range(Base64Alphabet))
      bytes == Octets([i \in 1..Len(data) |-> Sextet[data[i]]])
  IN [i \in 1..Len(bytes) |->
        IF bytes[i] \in 32..126 THEN Ascii[bytes[i] - 31] ELSE "?"]

Repeat(c, n) == [i \in 1..n |-> c]

\* rParam + "=".repeat((4 - rParam.length % 4) % 4)
PadB64(rParam) == rParam \o Repeat("=", (4 - (Len(rParam) % 4)) % 4)

\* Step 1 after the awaited response: the target, or the exception's message.
UnlockStep(u, html) ==
  LET redirectUrl == ReurlMatch(html)
      rParam == SearchParam(redirectUrl, <<"r">>)
  IN IF redirectUrl = Undefined THEN [threw |-> FALSE, target |-> u]
     ELSE IF ~IsURL(redirectUrl) THEN [threw |-> TRUE, target |-> <<"I","n","v","a","l","i","d"," ","U","R","L">>]
     ELSE IF ~Truthy(rParam) THEN [threw |-> FALSE, target |-> u]
     ELSE [threw |-> FALSE, target |-> Base64Decode(PadB64(rParam))]

IsVd(a) == a.id = <<"v","d">>

\* Step 2 after the awaited response.
HubCDNFinal(data) ==
  LET finalLink == AttrOfFirst(SelectSeq(data.anchors, IsVd))
      scriptMatch == ScriptMatch(data.text)
  IN IF Truthy(finalLink) THEN [NoResult EXCEPT !.status = "success", !.final_link = finalLink]
     ELSE IF scriptMatch # Undefined
     THEN [NoResult EXCEPT !.status = "success", !.final_link = scriptMatch]
     ELSE Message("failed", <<"L","i","n","k"," ","i","d","=","'","v","d","'"," ","n","o","t"," ","f","o","u","n","d"," ","i","n"," ","H","T","M","L">>)

\* Inputs: unlock pages and final pages.
B64One == <<"a","H","R","0","c","H","M","6","L","y","9","o","L","m","l","v","L","2","E">>

B64None == <<"a","H","R","0","c","H","M","6","L","y","9","o","L","m","l","v","L","2","F","i">>

B64Two == <<"a","H","R","0","c","H","M","6","L","y","9","o","L","m","l","v","L","2","F","i","Y","w">>

Script(inner) == Page(200, FALSE, <<>>, <<>>, <<"<","s","c","r","i","p","t",">">> \o inner \o <<"<","/","s","c","r","i","p","t",">">>)

Reurl(value) == Script(<<"v","a","r"," ","r","e","u","r","l"," ","="," ","\"">> \o value \o <<"\"",";">>)

UnlockPages ==
  {Script(<<"v","a","r"," ","x"," ","="," ","1",";">>),
   Reurl(<<"h","t","t","p","s",":","/","/","g","a","d","g","e","t","s",".","e","x","a","m","p","l","e","/","?","i","d","=","5","&","r","=">> \o B64One \o <<"#","t","o","p">>),
   Reurl(<<"h","t","t","p","s",":","/","/","g","a","d","g","e","t","s",".","e","x","a","m","p","l","e","/","?","r","=">> \o B64None),
   Reurl(<<"h","t","t","p","s",":","/","/","g","a","d","g","e","t","s",".","e","x","a","m","p","l","e","/","?","r","=">> \o B64Two),
   Reurl(<<"h","t","t","p","s",":","/","/","g","a","d","g","e","t","s",".","e","x","a","m","p","l","e","/","?","r","=">> \o B64Two \o <<"=","=">>),
   Reurl(<<"h","t","t","p","s",":","/","/","g","a","d","g","e","t","s",".","e","x","a","m","p","l","e","/","?","i","d","=","5">>),
   Reurl(<<"h","t","t","p","s",":","/","/","g","a","d","g","e","t","s",".","e","x","a","m","p","l","e","/","?","r","=">>),
   Reurl(<<"/","g","o","?","r","=">> \o B64None),
   Reurl(Empty),
   Reurl(<<"h","t","t","p","s",":","/","/","g","a","d","g","e","t","s",".","e","x","a","m","p","l","e","/","\n","?","r","=">> \o B64None)}

VdAnchor(href) == Anchor(href, <<"D","o","w","n","l","o","a","d">>, <<"v","d">>, {}, "none", Empty, Empty, <<>>)

FinalPages ==
  {Page(200, FALSE, <<>>, as, t) :
     as \in {<<>>, <<Link(<<"h","t","t","p","s",":","/","/","e","x","a","m","p","l","e",".","o","r","g","/","a","b","o","u","t">>)>>}
              \cup {<<Link(<<"h","t","t","p","s",":","/","/","e","x","a","m","p","l","e",".","o","r","g","/","a","b","o","u","t">>), VdAnchor(h)>> :
                      h \in {Undefined, Empty, <<" ">>, <<"h","t","t","p","s",":","/","/","c","d","n",".","e","x","a","m","p","l","e","/","v","i","d","e","o",".","m","p","4">>}},
     t \in {Empty,
            <<"<","s","c","r","i","p","t",">","w","i","n","d","o","w",".","l","o","c","a","t","i","o","n",".","h","r","e","f"," ","="," ","\"","h","t","t","p","s",":","/","/","c","d","n",".","e","x","a","m","p","l","e","/","v","2",".","m","p","4","\"",";","<","/","s","c","r","i","p","t",">">>,
            <<"<","s","c","r","i","p","t",">","w","i","n","d","o","w",".","l","o","c","a","t","i","o","n",".","h","r","e","f","=","\"","\"","<","/","s","c","r","i","p","t",">">>,
            <<"<","s","c","r","i","p","t",">","w","i","n","d","o","w",".","l","o","c","a","t","i","o","n",".","h","r","e","f","\n","="," ","\""," ","\"","<","/","s","c","r","i","p","t",">">>,
            <<"<","s","c","r","i","p","t",">","w","i","n","d","o","w",".","l","o","c","a","t","i","o","n",".","h","r","e","f"," ","="," ","\"","h","t","t","p","s",":","/","/","c","d","n",".","e","x","a","m","p","l","e","/","\n","v","\"","<","/","s","c","r","i","p","t",">">>}}

(***************************************************************************)
(* solveHubDrive                                                           *)
(***************************************************************************)
IsSuccessButton(a) == "btn-success" \in a.class /\ HrefContains(a, <<"h","u","b","c","l","o","u","d">>)

IsDl(a) == a.id = <<"d","l">>

IsDownstream(a) ==
  a.href # Undefined /\ (Includes(a.href, <<"h","u","b","c","l","o","u","d">>) \/ Includes(a.href, <<"h","u","b","c","d","n">>))

\* The body of solveHubDrive after the awaited response.
HubDriveBody(response) ==
  LET as == response.anchors
      pattern1 == IF \E i \in 1..Len(as) : IsSuccessButton(as[i])
                  THEN OrElse(AttrOfFirst(SelectSeq(as, IsSuccessButton)), Empty) ELSE Empty
      pattern2 == IF Truthy(pattern1) THEN pattern1
                  ELSE IF \E i \in 1..Len(as) : IsDl(as[i])
                  THEN OrElse(AttrOfFirst(SelectSeq(as, IsDl)), Empty) ELSE pattern1
      finalLink == IF Truthy(pattern2) THEN pattern2
                   ELSE IF \E i \in 1..Len(as) : IsDownstream(as[i])
                   THEN OrElse(AttrOfFirst(SelectSeq(as, IsDownstream)), Empty) ELSE pattern2
  IN IF Truthy(finalLink) THEN LinkFrom(finalLink, Undefined)
     ELSE Message("fail", <<"D","o","w","n","l","o","a","d"," ","l","i","n","k"," ","n","o","t"," ","f","o","u","n","d"," ","o","n"," ","H","u","b","D","r","i","v","e"," ","p","a","g","e">>)

\* Inputs: the anchors a HubDrive page may carry.
Button(href, id, class) == Anchor(href, <<"D","o","w","n","l","o","a","d">>, id, class, "none", Empty, Empty, <<>>)

DriveAnchors ==
  {Button(<<"h","t","t","p","s",":","/","/","h","u","b","c","l","o","u","d",".","f","o","o","/","d","r","i","v","e","/","a","1">>, Empty, {"btn", "btn-success"}),
   Button(<<"h","t","t","p","s",":","/","/","e","x","a","m","p","l","e",".","o","r","g","/","p","r","i","c","i","n","g">>, Empty, {"btn-success"}),
   Button(<<"h","t","t","p","s",":","/","/","c","d","n",".","e","x","a","m","p","l","e","/","d","l","/","f","i","l","e">>, <<"d","l">>, {"btn"}),
   Button(Empty, <<"d","l">>, {}),
   Button(<<" ">>, <<"d","l">>, {}),
   Button(Undefined, <<"d","l">>, {}),
   Button(<<"h","t","t","p","s",":","/","/","h","u","b","c","d","n",".","f","a","n","s","/","f","i","l","e","/","9">>, Empty, {}),
   Button(<<"h","t","t","p","s",":","/","/","e","x","a","m","p","l","e",".","o","r","g","/","a","b","o","u","t">>, Empty, {})}

DrivePages ==
  {Page(200, FALSE, <<>>, as, Empty) : as \in SeqsUpTo(DriveAnchors, MaxAnchors)}

(***************************************************************************)
(* The state machine.                                                      *)
(***************************************************************************)
Init ==
  /\ proc = "none"
  /\ pc = "idle"
  /\ url = Empty
  /\ requests = <<>>
  /\ deadline = 0
  /\ resp = NoPage
  /\ targetUrl = Empty
  /\ finalResp = NoPage
  /\ raised = FALSE
  /\ result = NoResult

\* axios.get(u, { headers, timeout: d }) or fetch(u, { headers }) (d = 0: no
\* deadline) is issued and the call suspends.
Request(u, d) ==
  /\ requests' = Append(requests, u)
  /\ deadline' = d

\* A procedure is entered and suspends at its first fetch.
Enter(p, u, d) ==
  /\ proc = "none"
  /\ proc' = p
  /\ pc' = "fetch"
  /\ url' = u
  /\ Request(u, d)
  /\ UNCHANGED <<resp, targetUrl, finalResp, raised, result>>

\* The procedure returns r.
Finish(r) ==
  /\ pc' = "done"
  /\ result' = r
  /\ deadline' = 0

CallSolveHBLinks(u) == Enter("solveHBLinks", u, AxiosTimeout)

HBLinksResponse ==
  /\ proc = "solveHBLinks"
  /\ pc = "fetch"
  /\ \E response \in HBPages :
    /\ resp' = response
    /\ Finish(HBLinksBody(response))
    /\ UNCHANGED <<proc, url, requests, targetUrl, finalResp, raised>>

\* fetch(url, { headers: HEADERS }) carries no timeout and no abort signal.
CallExtractMovieLinks(u) == Enter("extractMovieLinks", u, 0)

MovieLinksResponse ==
  /\ proc = "extractMovieLinks"
  /\ pc = "fetch"
  /\ \E html \in MoviePages :
    /\ resp' = html
    /\ Finish(MovieLinksBody(html))
    /\ UNCHANGED <<proc, url, requests, targetUrl, finalResp, raised>>

\* extractMovieMetadata is synchronous: it is called and returns in one step.
CallExtractMovieMetadata ==
  /\ proc = "none"
  /\ \E html \in MetadataDocs :
    /\ proc' = "extractMovieMetadata"
    /\ resp' = html
    /\ Finish([NoResult EXCEPT !.metadata = extractMovieMetadata(html)])
    /\ UNCHANGED <<url, requests, targetUrl, finalResp, raised>>

\* A direct-download URL skips step 1 and suspends at the final fetch.
CallSolveHubCDN(u) ==
  /\ proc = "none"
  /\ proc' = "solveHubCDN"
  /\ url' = u
  /\ targetUrl' = u
  /\ IF Includes(u, <<"/","d","l","/">>)
     THEN pc' = "finalFetch" /\ Request(u, FinalTimeout)
     ELSE pc' = "fetch" /\ Request(u, AxiosTimeout)
  /\ UNCHANGED <<resp, finalResp, raised, result>>

\* Step 1 resumes: the target is worked out and the final fetch issued, or
\* new URL throws and the catch block returns.
UnlockResponse ==
  /\ proc = "solveHubCDN"
  /\ pc = "fetch"
  /\ \E response \in UnlockPages :
    /\ resp' = response
    /\ LET step == UnlockStep(url, response.text)
       IN IF step.threw
          THEN /\ raised' = TRUE
               /\ Finish(Caught(step.target))
               /\ UNCHANGED <<requests, targetUrl>>
          ELSE /\ targetUrl' = step.target
               /\ pc' = "finalFetch"
               /\ Request(step.target, FinalTimeout)
               /\ UNCHANGED <<raised, result>>
    /\ UNCHANGED <<proc, url, finalResp>>

FinalResponse ==
  /\ proc = "solveHubCDN"
  /\ pc = "finalFetch"
  /\ \E response \in FinalPages :
    /\ finalResp' = response
    /\ Finish(HubCDNFinal(response))
    /\ UNCHANGED <<proc, url, requests, resp, targetUrl, raised>>

CallSolveHubDrive(u) == Enter("solveHubDrive", u, AxiosTimeout)

HubDriveResponse ==
  /\ proc = "solveHubDrive"
  /\ pc = "fetch"
  /\ \E response \in DrivePages :
    /\ resp' = response
    /\ Finish(HubDriveBody(response))
    /\ UNCHANGED <<proc, url, requests, targetUrl, finalResp, raised>>

\* The transport rejects the pending request: the catch block returns.
FetchRejects ==
  /\ pc \in {"fetch", "finalFetch"}
  /\ raised' = TRUE
  /\ Finish(Caught(<<"N","e","t","w","o","r","k"," ","E","r","r","o","r">>))
  /\ UNCHANGED <<proc, url, requests, resp, targetUrl, finalResp>>

\* The request's deadline passes with no answer: axios rejects.
DeadlineExpires ==
  /\ pc \in {"fetch", "finalFetch"}
  /\ deadline > 0
  /\ raised' = TRUE
  /\ Finish(Caught(<<"t","i","m","e","o","u","t"," ","o","f"," ">> \o ToString(deadline) \o <<"m","s"," ","e","x","c","e","e","d","e","d">>))
  /\ UNCHANGED <<proc, url, requests, resp, targetUrl, finalResp>>

\* The caller takes the result; nothing of the call is kept.
Return ==
  /\ pc = "done"
  /\ proc' = "none"
  /\ pc' = "idle"
  /\ url' = Empty
  /\ requests' = <<>>
  /\ deadline' = 0
  /\ resp' = NoPage
  /\ targetUrl' = Empty
  /\ finalResp' = NoPage
  /\ raised' = FALSE
  /\ result' = NoResult

Next ==
  \/ \E u \in Urls : CallSolveHBLinks(u)
  \/ HBLinksResponse
  \/ \E u \in Urls : CallExtractMovieLinks(u)
  \/ MovieLinksResponse
  \/ CallExtractMovieMetadata
  \/ \E u \in Urls : CallSolveHubCDN(u)
  \/ UnlockResponse
  \/ FinalResponse
  \/ \E u \in Urls : CallSolveHubDrive(u)
  \/ HubDriveResponse
  \/ FetchRejects
  \/ DeadlineExpires
  \/ Return

Spec == Init /\ [][Next]_vars

\* The runtime resumes a call whose response has arrived and fires a timer
\* that is due; nothing obliges the remote side to answer.
FairSpec == Spec /\ WF_vars(DeadlineExpires) /\ WF_vars(Return)

(***************************************************************************)
(* Properties.                                                             *)
(***************************************************************************)
Indices(s) == 1..Len(s)

Returned(p) == proc = p /\ pc = "done"

\* The awaited response arrived and no exception reached the catch block.
ReturnedNormally(p) == Returned(p) /\ ~raised

FirstPriority(as) ==
  {i \in Indices(as) : as[i].href # Undefined /\ Includes(as[i].href, <<"h","u","b","c","l","o","u","d",".","f","o","o">>)}

SecondPriority(as) ==
  {i \in Indices(as) : as[i].href # Undefined /\ Includes(as[i].href, <<"h","u","b","d","r","i","v","e",".","s","p","a","c","e">>)}

\* C1: solveHBLinks, on a page loaded with status 200 that holds an anchor
\* whose destination contains hubcloud.foo, returns success with the
\* destination of such an anchor and a source tagged "Priority 1", wherever
\* the hubdrive.space anchors stand; "Priority 2" is returned only when no
\* hubcloud.foo anchor exists.
C1_PriorityOneWins ==
  (ReturnedNormally("solveHBLinks") /\ resp.status = 200) =>
    LET first == FirstPriority(resp.anchors)
    IN /\ first # {} =>
            /\ result.status = "success"
            /\ \E i \in first : result.link = resp.anchors[i].href
            /\ Includes(result.source, <<"P","r","i","o","r","i","t","y"," ","1">>)
       /\ Includes(result.source, <<"P","r","i","o","r","i","t","y"," ","2">>) => first = {}

\* A second-priority anchor stands before the first-priority one, which wins.
C1_Witness ==
  /\ ReturnedNormally("solveHBLinks")
  /\ resp.status = 200
  /\ Len(resp.anchors) = 2
  /\ 1 \in SecondPriority(resp.anchors)
  /\ FirstPriority(resp.anchors) = {2}
  /\ result.link = resp.anchors[2].href
  /\ Includes(result.source, <<"P","r","i","o","r","i","t","y"," ","1">>)

\* An anchor of the article that passes the filter pipeline of extractMovieLinks.
Survives(a) ==
  /\ a.href # Undefined
  /\ a.scope \in {"content", "main"}
  /\ a.href # Empty
  /\ a.href[1] # "#"
  /\ \A i \in Indices(JUNK_DOMAINS) : ~Includes(a.href, JUNK_DOMAINS[i])
  /\ \/ \E i \in Indices(TargetDomains) : Includes(a.href, TargetDomains[i])
     \/ \E i \in Indices(DownloadKeywords) : Includes(ToUpperCase(a.text), DownloadKeywords[i])

\* C2: the links extractMovieLinks returns never hold two entries with the
\* same link, each entry carries the name derived from the first surviving
\* anchor with that link, and every name has at most 50 characters.
C2_LinksUniqueNamesShort ==
  ReturnedNormally("extractMovieLinks") =>
    LET links == result.links
        as == resp.anchors
    IN /\ \A i, j \in Indices(links) : links[i].link = links[j].link => i = j
       /\ \A k \in Indices(links) :
            /\ Len(links[k].name) <= 50
            /\ \E i \in Indices(as) :
                 /\ Survives(as[i]) /\ as[i].href = links[k].link
                 /\ \A j \in 1..(i - 1) : ~(Survives(as[j]) /\ as[j].href = links[k].link)
                 /\ links[k].name = Substring(CleanName(as[i]), 0, 50)

\* Two different anchors share a destination: one entry is kept, named after
\* the first, whose derived name is cut to 50 characters.
C2_Witness ==
  /\ ReturnedNormally("extractMovieLinks")
  /\ Len(resp.anchors) = 2
  /\ Survives(resp.anchors[1]) /\ Survives(resp.anchors[2])
  /\ resp.anchors[1].href = resp.anchors[2].href
  /\ CleanName(resp.anchors[1]) # CleanName(resp.anchors[2])
  /\ Len(CleanName(resp.anchors[1])) > 50
  /\ Len(result.links) = 1
  /\ Len(result.links[1].name) = 50

\* C3: extractMovieLinks, when the page was fetched and parsed without an
\* exception and no anchor survives the filter pipeline, returns the Fail tag
\* with the message "No links found. The page structure might have changed.".
C3_NoLinksIsFail ==
  (ReturnedNormally("extractMovieLinks") /\ \A i \in Indices(resp.anchors) : ~Survives(resp.anchors[i])) =>
    /\ result.status = "fail"
    /\ result.message = <<"N","o"," ","l","i","n","k","s"," ","f","o","u","n","d","."," ","T","h","e"," ","p","a","g","e"," ","s","t","r","u","c","t","u","r","e"," ","m","i","g","h","t"," ","h","a","v","e"," ","c","h","a","n","g","e","d",".">>

Resolvers == {"solveHBLinks", "extractMovieLinks", "solveHubCDN", "solveHubDrive"}

\* C4: every result a resolver returns carries one of exactly three tags,
\* success, fail or error, the same value for the same outcome in every
\* procedure: solveHubCDN's not-found result carries the fail tag of
\* solveHBLinks and solveHubDrive.
C4_ThreeTags ==
  (proc \in Resolvers /\ pc = "done") => result.status \in {"success", "fail", "error"}

\* The metadata a call produced: extractMovieMetadata's own result, or the
\* metadata field of a successful extractMovieLinks.
Classified ==
  \/ Returned("extractMovieMetadata")
  \/ ReturnedNormally("extractMovieLinks") /\ result.status = "success"

\* The vocabulary's languages that occur as whole words in the language evidence.
Matched ==
  IF resp.content
  THEN LET evidence == CombinedText(resp, <<"L","a","n","g","u","a","g","e",":">>)
       IN {l \in Range(validLanguages) : WordTest(evidence, l)}
  ELSE {}

\* C5: audioLabel depends only on the number of matched languages: none
\* gives "Unknown", one gives that language's name, two give "Dual Audio",
\* three or more give "Multi Audio", whichever languages they are and
\* whatever the quality evidence.
C5_AudioLabelByCount ==
  Classified =>
    LET matched == Matched
        n == Cardinality(matched)
        audioLabel == result.metadata.audioLabel
    IN /\ n = 0 => audioLabel = <<"U","n","k","n","o","w","n">>
       /\ n = 1 => audioLabel \in matched
       /\ n = 2 => audioLabel = <<"D","u","a","l"," ","A","u","d","i","o">>
       /\ n >= 3 => audioLabel = <<"M","u","l","t","i"," ","A","u","d","i","o">>

\* Three languages matched, with quality evidence on the page.
C5_Witness ==
  /\ Classified
  /\ Cardinality(Matched) = 3
  /\ result.metadata.audioLabel = <<"M","u","l","t","i"," ","A","u","d","i","o">>
  /\ result.metadata.quality # <<"U","n","k","n","o","w","n"," ","Q","u","a","l","i","t","y">>

\* The resolution tiers whose label occurs in the combined quality text.
TiersPresent ==
  LET evidence == CombinedText(resp, <<"Q","u","a","l","i","t","y",":">>)
  IN {r \in Range(resolutions) : Includes(evidence, ToUpperCase(r.label))}

TagsPresent ==
  LET evidence == CombinedText(resp, <<"Q","u","a","l","i","t","y",":">>)
  IN SelectSeq(formats, LAMBDA f : Includes(evidence, ToUpperCase(f)))

\* C6: with no resolution tier in the combined quality text the quality is
\* exactly "Unknown Quality", format tags or not; otherwise it is the present
\* tier of highest rank followed by the distinct format tags present, in the
\* vocabulary's order, separated by single spaces, with no trailing whitespace.
C6_QualityLabel ==
  (Classified /\ resp.content) =>
    LET quality == result.metadata.quality
        tiers == TiersPresent
    IN IF tiers = {} THEN quality = <<"U","n","k","n","o","w","n"," ","Q","u","a","l","i","t","y">>
       ELSE LET top == CHOOSE r \in tiers : \A q \in tiers : q.value <= r.value
            IN /\ StartsWith(quality, top.label)
               /\ quality = Join(<<top.label>> \o TagsPresent, <<" ">>)
               /\ quality[Len(quality)] \notin Whitespace

\* Two tiers and a format tag are present; the higher tier leads.
C6_Witness ==
  /\ Classified /\ resp.content
  /\ Cardinality(TiersPresent) >= 2
  /\ Len(TagsPresent) >= 1
  /\ \E r \in TiersPresent : r.label = <<"7","2","0","p">>
  /\ StartsWith(result.metadata.quality, <<"1","0","8","0","p"," ">>)

\* The page of the example: the only language evidence is the paragraph
\* <p><strong>Language:</strong> Hindi, English</p>.
LanguageExample ==
  /\ resp.content
  /\ SelectSeq(resp.paras, LAMBDA p : Includes(p.strong, <<"L","a","n","g","u","a","g","e",":">>))
       = <<[strong |-> <<"L","a","n","g","u","a","g","e",":">>, text |-> <<"L","a","n","g","u","a","g","e",":"," ","H","i","n","d","i",","," ","E","n","g","l","i","s","h">>]>>
  /\ SourceB(resp.anchors) = <<>>

\* C7 as stated: the example page yields languages "English, Hindi" and
\* audioLabel "Dual Audio".
C7_EnglishHindi ==
  (Classified /\ LanguageExample) =>
    /\ result.metadata.languages = <<"E","n","g","l","i","s","h",","," ","H","i","n","d","i">>
    /\ result.metadata.audioLabel = <<"D","u","a","l"," ","A","u","d","i","o">>

\* C7 amended: the languages string lists the matched languages in the
\* vocabulary's enumeration order, which has Hindi before English, not in
\* document order; the example page yields languages "Hindi, English" and
\* audioLabel "Dual Audio".
C7_HindiEnglish ==
  (Classified /\ resp.content) =>
    /\ LET matched == Matched
       IN /\ matched # {} =>
               result.metadata.languages = Join(Listed(validLanguages, matched), <<","," ">>)
          /\ matched = {<<"H","i","n","d","i">>, <<"E","n","g","l","i","s","h">>} =>
               result.metadata.languages = <<"H","i","n","d","i",","," ","E","n","g","l","i","s","h">>
    /\ LanguageExample =>
         /\ result.metadata.languages = <<"H","i","n","d","i",","," ","E","n","g","l","i","s","h">>
         /\ result.metadata.audioLabel = <<"D","u","a","l"," ","A","u","d","i","o">>

C7_Witness ==
  /\ Returned("extractMovieMetadata")
  /\ LanguageExample
  /\ result.metadata.languages = <<"H","i","n","d","i",","," ","E","n","g","l","i","s","h">>
  /\ result.metadata.audioLabel = <<"D","u","a","l"," ","A","u","d","i","o">>

\* C8: no success of solveHubCDN or solveHubDrive carries an empty or
\* whitespace-only link: such a destination is no match and the chain goes on
\* to the next strategy.
C8_NoBlankLink ==
  /\ (Returned("solveHubCDN") /\ result.status = "success") => Trim(result.final_link) # Empty
  /\ (Returned("solveHubDrive") /\ result.status = "success") => Trim(result.link) # Empty

\* C9: every call suspended at a network fetch eventually returns a result.
C9_EveryCallReturns == (pc \in {"fetch", "finalFetch"}) ~> (pc = "done")

\* C10: the URL solveHubCDN fetches in the final step.  With "/dl/" in the
\* input URL there is no unlock fetch and the target is the input URL.
\* Otherwise the input URL is fetched once; when the body has no reurl
\* assignment or that string has no r parameter (an empty one counted as
\* none) the target is the input URL and the call goes on to the final fetch
\* without a Fail or Error; when both are present the target is the
\* base64-decoded parameter, padded with "=" to a multiple of 4.
C10_FinalTarget ==
  (proc = "solveHubCDN" /\ pc \in {"finalFetch", "done"}
     /\ (resp # NoPage \/ Includes(url, <<"/","d","l","/">>))) =>
    IF Includes(url, <<"/","d","l","/">>)
    THEN requests = <<url>> /\ resp = NoPage /\ targetUrl = url
    ELSE LET reurl == ReurlMatch(resp.text)
             r == IF reurl = Undefined THEN Undefined ELSE SearchParam(reurl, <<"r">>)
             target == IF r \in {Undefined, Empty} THEN url
                       ELSE Base64Decode(r \o Repeat("=", (4 - (Len(r) % 4)) % 4))
         IN requests = <<url, target>> /\ targetUrl = target

====
